---- MODULE Spec2Model ----
(***************************************************************************)
(* Model of SiteScan_Image_Formatter_Source.py: the coordinate encoder     *)
(* (to_deg, change_to_rational), the GPS block written by                  *)
(* set_gps_location, write_list_to_file and the batch loop of main.        *)
(*                                                                         *)
(* Numbers.  A Python int is [t |-> "int", n |-> k].  A Python float is a  *)
(* decimal fixed-point record                                              *)
(*     [t |-> "float", sgn, whole, hi, lo]                                 *)
(* standing for  sgn * (whole + hi/10^Places + lo/10^(Places+TailDigits)). *)
(* Float arithmetic is carried out exactly on these decimals: the binary   *)
(* rounding error of an IEEE double (below 1e-12 for the magnitudes used   *)
(* here) is not represented.                                               *)
(***************************************************************************)
EXTENDS Integers, Sequences, FiniteSets, TLC

\* ---------------------------------------------------------------- bounds
TailDigits == 4        \* decimal digits a float carries beyond Places
Dense      == 12       \* width of the dense runs in the sample grids
MaxWhole   == 2        \* whole parts 0..MaxWhole of change_to_rational inputs
MaxCalls   == 2        \* calls of set_gps_location on the same file
MaxRows    == 4        \* data rows of the input table

\* ------------------------------------------------------ program constants
Places           == 5  \* round(..., 5) in to_deg
GPSAltitudeRefV  == 1  \* piexif.GPSIFD.GPSAltitudeRef: 1
img_Name_Column  == 0
Lat_Y_Column     == 1
Long_X_Column    == 2
Alt_Z_Column     == 3

HiScale   == 10^Places
TailScale == 10^TailDigits

None == "None"

\* a tuple not yet returned
NoResult == <<>>

\* ------------------------------------------------------- Python numbers
PyInt(k) == [t |-> "int", n |-> k]

PyFloat(s, w, h, l) == [t |-> "float", sgn |-> s, whole |-> w, hi |-> h, lo |-> l]

\* value == 0 (true of 0.0 and of -0.0)
IsZero(x) == IF x.t = "int" THEN x.n = 0
             ELSE x.whole = 0 /\ x.hi = 0 /\ x.lo = 0

\* value < 0
Lt0(x) == IF x.t = "int" THEN x.n < 0 ELSE x.sgn = -1 /\ ~IsZero(x)

\* value > 0
Gt0(x) == IF x.t = "int" THEN x.n > 0 ELSE x.sgn = 1 /\ ~IsZero(x)

\* abs(value) of a float
py_abs(x) == [x EXCEPT !.sgn = 1]

\* int(x) of a float: truncation toward zero
py_int(x) == PyInt(x.sgn * x.whole)

\* x - k for a float x >= 0 and an int 0 <= k <= int(x)
FSubInt(x, k) == [x EXCEPT !.whole = @ - k.n]

\* x * 60 for a float x >= 0, limb by limb
FMul60(x) ==
    LET l60 == x.lo * 60
        h60 == x.hi * 60 + (l60 \div TailScale)
    IN  [x EXCEPT !.lo    = l60 % TailScale,
                  !.hi    = h60 % HiScale,
                  !.whole = x.whole * 60 + (h60 \div HiScale)]

\* round(x, 5) of a float x >= 0: nearest multiple of 10^-5, ties to even
py_round5(x) ==
    LET up == \/ 2 * x.lo > TailScale
              \/ 2 * x.lo = TailScale /\ x.hi % 2 = 1
        h  == x.hi + (IF up THEN 1 ELSE 0)
    IN  [x EXCEPT !.lo    = 0,
                  !.hi    = h % HiScale,
                  !.whole = x.whole + (h \div HiScale)]

\* round(x) of a float: nearest int, ties to even
py_round(x) ==
    LET half == HiScale \div 2
        up   == \/ x.hi > half
                \/ x.hi = half /\ x.lo > 0
                \/ x.hi = half /\ x.lo = 0 /\ x.whole % 2 = 1
    IN  PyInt(x.sgn * (x.whole + (IF up THEN 1 ELSE 0)))

\* ---------------------------------------------------------------- to_deg
to_deg_sign_slip(value, loc) ==
    LET loc_value == IF ~Gt0(value) THEN loc[1] ELSE loc[2]
        abs_value == py_abs(value)
        deg       == py_int(abs_value)
        t1        == FMul60(FSubInt(abs_value, deg))
        min       == py_int(t1)
        sec       == py_round5(FMul60(FSubInt(t1, min)))
    IN  <<deg, min, sec, loc_value>>

to_deg_minutes_slip(value, loc) ==
    LET loc_value == IF Lt0(value) THEN loc[1]
                     ELSE IF Gt0(value) THEN loc[2] ELSE ""
        abs_value == py_abs(value)
        deg       == py_int(abs_value)
        t1        == FMul60(FSubInt(abs_value, deg))
        min       == py_int(t1)
        sec       == py_round5(FMul60(t1))
    IN  <<deg, min, sec, loc_value>>

to_deg(value, loc) ==
    LET loc_value == IF Lt0(value) THEN loc[1]
                     ELSE IF Gt0(value) THEN loc[2] ELSE ""
        abs_value == py_abs(value)
        deg       == py_int(abs_value)
        t1        == FMul60(FSubInt(abs_value, deg))
        min       == py_int(t1)
        sec       == py_round5(FMul60(FSubInt(t1, min)))
    IN  <<deg, min, sec, loc_value>>

\* ---------------------------------------------------- change_to_rational
RECURSIVE NatToDigits(_)
\* decimal digits of a natural number, most significant first
NatToDigits(n) == IF n < 10 THEN <<n>> ELSE Append(NatToDigits(n \div 10), n % 10)

RECURSIVE DigitsToNat(_)
\* int("...") of a string of decimal digits
DigitsToNat(ds) ==
    IF ds = <<>> THEN 0
    ELSE 10 * DigitsToNat(SubSeq(ds, 1, Len(ds) - 1)) + ds[Len(ds)]

RECURSIVE ZeroPad(_, _)
ZeroPad(ds, width) == IF Len(ds) >= width THEN ds ELSE ZeroPad(<<0>> \o ds, width)

RECURSIVE StripZeros(_)
\* drop trailing zeros, keeping at least one digit
StripZeros(ds) ==
    IF Len(ds) > 1 /\ ds[Len(ds)] = 0 THEN StripZeros(SubSeq(ds, 1, Len(ds) - 1))
    ELSE ds

RECURSIVE GCD(_, _)
GCD(a, b) == IF b = 0 THEN a ELSE GCD(b, a % b)

Abs(k) == IF k < 0 THEN -k ELSE k

\* str(number), given as the groups Fraction's pattern finds in the text:
\* sign, num, decimal (<<>> when the text has no '.'), exp (0 when absent).
\* An int prints its digits; a float with at most Places fractional digits
\* prints "num.decimal", or "de-05" when it is non-zero and below 1e-4.
py_str(number) ==
    IF number.t = "int"
    THEN [sign    |-> IF number.n < 0 THEN "-" ELSE "",
          num     |-> NatToDigits(Abs(number.n)),
          decimal |-> <<>>,
          exp     |-> 0]
    ELSE IF number.whole = 0 /\ number.hi > 0 /\ number.hi < 10
    THEN [sign    |-> IF number.sgn < 0 THEN "-" ELSE "",
          num     |-> <<number.hi>>,
          decimal |-> <<>>,
          exp     |-> -Places]
    ELSE [sign    |-> IF number.sgn < 0 THEN "-" ELSE "",
          num     |-> NatToDigits(number.whole),
          decimal |-> StripZeros(ZeroPad(NatToDigits(number.hi), Places)),
          exp     |-> 0]

\* Fraction(text): numerator and denominator in lowest terms, denominator > 0
Fraction_scale_slip(m) ==
    LET scale == IF m.decimal = <<>> THEN 1
                 ELSE 10^Len(NatToDigits(DigitsToNat(m.decimal)))
        n0    == DigitsToNat(m.num) * scale + DigitsToNat(m.decimal)
        n1    == IF m.exp >= 0 THEN n0 * 10^m.exp ELSE n0
        d1    == IF m.exp >= 0 THEN scale ELSE scale * 10^(-m.exp)
        n2    == IF m.sign = "-" THEN -n1 ELSE n1
        g     == GCD(Abs(n2), d1)
    IN  [numerator |-> n2 \div g, denominator |-> d1 \div g]

Fraction(m) ==
    LET scale == IF m.decimal = <<>> THEN 1 ELSE 10^Len(m.decimal)
        n0    == DigitsToNat(m.num) * scale + DigitsToNat(m.decimal)
        n1    == IF m.exp >= 0 THEN n0 * 10^m.exp ELSE n0
        d1    == IF m.exp >= 0 THEN scale ELSE scale * 10^(-m.exp)
        n2    == IF m.sign = "-" THEN -n1 ELSE n1
        g     == GCD(Abs(n2), d1)
    IN  [numerator |-> n2 \div g, denominator |-> d1 \div g]

change_to_rational(number) ==
    LET f == Fraction(py_str(number))
    IN  <<f.numerator, f.denominator>>

\* ------------------------------------------------------ set_gps_location
IFDs == {"0th", "Exif", "GPS"}

\* an IFD the metadata does not contain
NoIFD == [absent |-> TRUE]

\* the GPS block assembled by set_gps_location
gps_ifd(lat, lng, altitude) ==
    LET lat_deg  == to_deg(lat, <<"S", "N">>)
        lng_deg  == to_deg(lng, <<"W", "E">>)
        exiv_lat == <<change_to_rational(lat_deg[1]), change_to_rational(lat_deg[2]),
                      change_to_rational(lat_deg[3])>>
        exiv_lng == <<change_to_rational(lng_deg[1]), change_to_rational(lng_deg[2]),
                      change_to_rational(lng_deg[3])>>
    IN  [GPSVersionID    |-> <<2, 0, 0, 0>>,
         GPSAltitudeRef  |-> GPSAltitudeRefV,
         GPSAltitude     |-> change_to_rational(py_round(altitude)),
         GPSLatitudeRef  |-> lat_deg[4],
         GPSLatitude     |-> exiv_lat,
         GPSLongitudeRef |-> lng_deg[4],
         GPSLongitude    |-> exiv_lng]

\* The metadata of the file after set_gps_location returns: piexif.dump
\* serialises {"GPS": gps_ifd} alone and piexif.insert puts it in place of
\* whatever metadata "old" the file carried.  The block is kept as the code
\* hands it over; a call in which piexif raises is MetadataFailure of main.
set_gps_location_merge_slip(old, lat, lng, altitude) ==
    [ifd \in IFDs |-> IF ifd = "GPS" THEN gps_ifd(lat, lng, altitude) ELSE old[ifd]]

set_gps_location(old, lat, lng, altitude) ==
    [ifd \in IFDs |-> IF ifd = "GPS" THEN gps_ifd(lat, lng, altitude) ELSE NoIFD]

\* ---------------------------------------------------- write_list_to_file
\* a text file is [exists, lines]; Absent is the path with no file
Absent == [exists |-> FALSE, lines |-> <<>>]

TextFile(ls) == [exists |-> TRUE, lines |-> ls]

\* the file csvFile after the call: removed if present, then created and
\* written with one line per entry of inList
write_list_to_file_append_slip(inList, csvFile) ==
    TextFile(csvFile.lines \o inList)

write_list_to_file(inList, csvFile) ==
    LET removed == IF csvFile.exists THEN Absent ELSE csvFile
    IN  TextFile(removed.lines \o inList)

\* ------------------------------------------------------------------ state
VARIABLES
    \* a caller of one of the encoder functions
    fn,          \* the function called: "to_deg", "change_to_rational", "set_gps_location", or None
    value, loc,  \* arguments of to_deg
    dms,         \* what to_deg returned, NoResult before the call
    number,      \* argument of change_to_rational
    rational,    \* what change_to_rational returned, NoResult before the call
    lat, lng, altitude,   \* arguments of set_gps_location
    photo,       \* metadata of the file given to set_gps_location
    calls,       \* completed calls of set_gps_location
    \* main
    rows,        \* the rows of gpscsv, the header row first
    present,     \* names of the files that exist in sourceImageFolder
    meta,        \* metadata of each file of sourceImageFolder
    report,      \* the file errorLogCSV
    report0,     \* errorLogCSV as it was when main started
    failedFiles, \* the list failedFiles
    i,           \* index of the row the reader is at
    pc,          \* "open", "loop", "done" (main returned) or "raised" (exception left main)
    err,         \* the exception that left main, None if none
    tagged,      \* indices of the rows whose set_gps_location call returned
    stdout       \* what main printed

unitVars  == <<fn, value, loc, dms, number, rational, lat, lng, altitude, photo, calls>>
batchVars == <<rows, present, meta, report, report0, failedFiles, i, pc, err, tagged, stdout>>
vars      == <<unitVars, batchVars>>

\* ------------------------------------------------- inputs of the encoder
Zero == PyFloat(1, 0, 0, 0)

DegWholes == {0, 1, 179, 180, 181}

HiSamples ==
    (0 .. Dense) \cup {HiScale - 1 - k : k \in 0 .. Dense}
    \cup {k * (HiScale \div 20) : k \in 0 .. 19}
    \cup {k * (HiScale \div 20) - 1 : k \in 1 .. 20}

LoSamples ==
    (0 .. Dense) \cup {TailScale - 1 - k : k \in 0 .. Dense} \cup {TailScale \div 2}

DegInputs ==
    {PyFloat(s, w, h, l) : s \in {-1, 1}, w \in DegWholes, h \in HiSamples, l \in LoSamples}

LocPairs == {<<"S", "N">>, <<"W", "E">>, <<"-", "+">>}

RatHi ==
    (0 .. 10 * Dense) \cup {HiScale - 1 - k : k \in 0 .. Dense}
    \cup {k * 125 : k \in 0 .. (HiScale \div 125) - 1}

RatInputs ==
    {PyInt(k) : k \in (-Dense .. Dense) \cup {59, 60, 180, -180}}
    \cup {PyFloat(s, w, h, 0) : s \in {-1, 1}, w \in (0 .. MaxWhole) \cup {59, 60}, h \in RatHi}

LatSamples ==
    {Zero, PyFloat(-1, 0, 0, 0), PyFloat(1, 12, 50000, 0),
     PyFloat(-1, 33, 86514, 3 * (TailScale \div 10)),
     PyFloat(1, 0, HiScale - 1, TailScale - 1)}

LngSamples ==
    {Zero, PyFloat(1, 151, 20990, 0), PyFloat(-1, 0, 0, 1), PyFloat(-1, 77, 3, 7)}

AltSamples ==
    {Zero, PyFloat(1, 12, 60000, 0), PyFloat(-1, 12, 60000, 0), PyFloat(1, 0, 50000, 0),
     PyFloat(1, 1, 50000, 0), PyFloat(1, 2, 50000, 0), PyFloat(-1, 0, 40000, 0),
     PyFloat(1, 100, 49999, TailScale - 1), PyFloat(-1, 2, 50000, 1)}

NoExif == [ifd \in IFDs |-> NoIFD]

CameraTags == [Make |-> "SONY"]

OldPosition == [GPSLatitudeRef |-> "N", GPSLongitudeRef |-> "W"]

PriorExif ==
    {NoExif,
     [ifd \in IFDs |-> IF ifd = "0th" THEN CameraTags ELSE NoIFD],
     [ifd \in IFDs |-> IF ifd = "GPS" THEN OldPosition ELSE CameraTags]}

UnitIdle ==
    /\ fn = None
    /\ value = Zero /\ loc = <<"S", "N">> /\ dms = NoResult
    /\ number = PyInt(0) /\ rational = NoResult
    /\ lat = Zero /\ lng = Zero /\ altitude = Zero /\ photo = NoExif /\ calls = 0

BatchIdle ==
    /\ rows = <<>> /\ present = {} /\ meta = <<>>
    /\ report = Absent /\ report0 = Absent
    /\ failedFiles = <<>> /\ i = 1 /\ pc = None /\ err = None
    /\ tagged = {} /\ stdout = <<>>

InitUnit ==
    /\ BatchIdle
    /\ fn \in {"to_deg", "change_to_rational", "set_gps_location"}
    /\ dms = NoResult /\ rational = NoResult /\ calls = 0
    /\ IF fn = "to_deg" THEN value \in DegInputs /\ loc \in LocPairs
       ELSE value = Zero /\ loc = <<"S", "N">>
    /\ IF fn = "change_to_rational" THEN number \in RatInputs ELSE number = PyInt(0)
    /\ IF fn = "set_gps_location"
       THEN lat \in LatSamples /\ lng \in LngSamples /\ altitude \in AltSamples
            /\ photo \in PriorExif
       ELSE lat = Zero /\ lng = Zero /\ altitude = Zero /\ photo = NoExif

\* ------------------------------------------------ calls of the encoder
CallToDeg ==
    /\ fn = "to_deg" /\ dms = NoResult
    /\ dms' = to_deg(value, loc)
    /\ UNCHANGED <<fn, value, loc, number, rational, lat, lng, altitude, photo, calls>>
    /\ UNCHANGED batchVars

CallChangeToRational ==
    /\ fn = "change_to_rational" /\ rational = NoResult
    /\ rational' = change_to_rational(number)
    /\ UNCHANGED <<fn, value, loc, dms, number, lat, lng, altitude, photo, calls>>
    /\ UNCHANGED batchVars

CallSetGpsLocation ==
    /\ fn = "set_gps_location" /\ calls < MaxCalls
    /\ photo' = set_gps_location(photo, lat, lng, altitude)
    /\ calls' = calls + 1
    /\ UNCHANGED <<fn, value, loc, dms, number, rational, lat, lng, altitude>>
    /\ UNCHANGED batchVars

NextUnit == CallToDeg \/ CallChangeToRational \/ CallSetGpsLocation

SpecUnit == InitUnit /\ [][NextUnit]_vars

\* ------------------------------------------------- claims on the encoder
ToDegReturned == fn = "to_deg" /\ dms # NoResult

SetGpsReturned == fn = "set_gps_location" /\ calls >= 1

\* |v| <= 180
Within180(v) == v.whole < 180 \/ (v.whole = 180 /\ v.hi = 0 /\ v.lo = 0)

\* seconds of a DMS tuple in units of 10^-5 second
Sec5(d) == d[3].whole * HiScale + d[3].hi

\* 1e-5 degree in units of 10^-5 second of arc
Tol5 == (3600 * HiScale) \div 10^5

\* d[1] + d[2]/60 + d[3]/3600, negated when d[4] is the negative reference
\* l[1], lies within 1e-5 of v.  Differences are taken in units of 10^-5
\* second of arc, the digits of v beyond Places kept apart as v.lo/TailScale.
DecodesWithinTolerance(v, l, d) ==
    LET negative == d[4] = l[1]
        dd       == d[1].n - v.whole
        delta    == dd * 3600 * HiScale + d[2].n * 60 * HiScale + Sec5(d) - v.hi * 3600
        total    == d[2].n * 60 * HiScale + Sec5(d) + v.hi * 3600
    IN  IF negative <=> (v.sgn = -1)
        THEN /\ Abs(dd) <= 1
             /\ Abs(delta) <= 2 * Tol5
             /\ Abs(delta * TailScale - v.lo * 3600) <= Tol5 * TailScale
        ELSE /\ d[1].n = 0 /\ v.whole = 0
             /\ total <= Tol5
             /\ total * TailScale + v.lo * 3600 <= Tol5 * TailScale

\* C3: for |value| <= 180 the tuple to_deg returns decodes, as
\* deg + min/60 + sec/3600 with the sign of the reference, to within 1e-5
\* of value.
C3_DecodeWithinTolerance ==
    (ToDegReturned /\ Within180(value)) => DecodesWithinTolerance(value, loc, dms)

\* a negative value with digits beyond the rounding, whose seconds round to 60
C3_Witness ==
    /\ ToDegReturned /\ Within180(value)
    /\ Lt0(value) /\ value.lo # 0 /\ value.whole = 179
    /\ dms[3].whole = 60 /\ dms[4] = loc[1]

\* x * 10^5 as an integer, for a number with at most 5 fractional digits
Times10P(x) == IF x.t = "int" THEN x.n * HiScale
               ELSE x.sgn * (x.whole * HiScale + x.hi)

\* C4: change_to_rational returns integers (n, d), d > 0, with n/d equal to
\* the number exactly: d divides 10^5 and n * (10^5 / d) = number * 10^5.
C4_ExactFraction ==
    (fn = "change_to_rational" /\ rational # NoResult) =>
        /\ rational[2] > 0
        /\ HiScale % rational[2] = 0
        /\ rational[1] * (HiScale \div rational[2]) = Times10P(number)

\* a negative float with a leading zero among its five fractional digits
C4_Witness ==
    /\ fn = "change_to_rational" /\ rational # NoResult
    /\ number.t = "float" /\ number.sgn = -1
    /\ number.hi > 10 /\ number.hi < 10000 /\ number.hi % 10 # 0
    /\ rational[1] < 0 /\ rational[2] = HiScale

\* the reference the sign of v selects from the pair l
RefOf(v, l) == IF Lt0(v) THEN l[1] ELSE IF Gt0(v) THEN l[2] ELSE ""

\* C5: to_deg returns the negative reference for value < 0, the positive
\* reference for value > 0 and "" for value = 0, and set_gps_location stores
\* these references for latitude ("S", "N") and longitude ("W", "E").
C5_ReferenceBySign ==
    /\ ToDegReturned => dms[4] = RefOf(value, loc)
    /\ SetGpsReturned =>
          /\ photo["GPS"].GPSLatitudeRef = RefOf(lat, <<"S", "N">>)
          /\ photo["GPS"].GPSLongitudeRef = RefOf(lng, <<"W", "E">>)

\* a latitude of exactly 0 stored with the empty reference
C5_Witness ==
    /\ SetGpsReturned /\ IsZero(lat) /\ Lt0(lng)
    /\ photo["GPS"].GPSLatitudeRef = "" /\ photo["GPS"].GPSLongitudeRef = "W"

\* C6: set_gps_location stores altitude reference 1 whatever the sign of the
\* altitude, and as altitude the magnitude of round(altitude) over 1.
C6_AltitudeMagnitude ==
    SetGpsReturned =>
        /\ photo["GPS"].GPSAltitudeRef = 1
        /\ photo["GPS"].GPSAltitude = <<Abs(py_round(altitude).n), 1>>

\* C9: the metadata stored by set_gps_location depends on (lat, lng,
\* altitude) only: it is what the call stores on a file with any other
\* previous metadata, and what one more call with the same arguments stores.
C9_StoredFromArgumentsOnly ==
    SetGpsReturned =>
        \A old \in PriorExif \cup {photo} :
            set_gps_location(old, lat, lng, altitude) = photo

\* a second call, after which the file holds the GPS block and nothing else
C9_Witness ==
    /\ SetGpsReturned /\ calls = 2
    /\ photo["0th"] = NoIFD /\ photo["GPS"].GPSLatitudeRef = "S"

\* C10: to_deg returns deg >= 0, 0 <= min <= 59 and 0 <= sec < 60.
C10_WellFormedDMS ==
    ToDegReturned =>
        /\ dms[1].n >= 0
        /\ dms[2].n >= 0 /\ dms[2].n <= 59
        /\ dms[3].sgn = 1 /\ dms[3].whole < 60

\* ------------------------------------------------------------------ main
\* A cell of gpscsv is text.  A cell that float() accepts is given as the
\* float it parses to; any other cell is TextCell of its text.
TextCell(str) == [t |-> "text", s |-> str]

NotANumber == TextCell("n/a")

Names == {"a.jpg", "b.jpg"}

Coord1 == <<PyFloat(-1, 33, 86514, 3 * (TailScale \div 10)), PyFloat(1, 151, 20990, 0),
            PyFloat(1, 12, 60000, 0)>>

Coord2 == <<Zero, PyFloat(-1, 0, HiScale - 1, TailScale - 1), PyFloat(-1, 12, 60000, 0)>>

GoodRow(name, c) == <<TextCell(name), c[1], c[2], c[3]>>

RowSamples ==
    {GoodRow("a.jpg", Coord1), GoodRow("a.jpg", Coord2), GoodRow("b.jpg", Coord1),
     <<TextCell("a.jpg"), Coord1[1]>>,
     <<TextCell("b.jpg"), Coord2[1], NotANumber, Coord2[3]>>,
     <<TextCell("a.jpg"), Coord1[1], Coord1[2], NotANumber>>,
     <<>>}

\* first rows: a header, or a data row in the place of the header
HeaderSamples ==
    {<<TextCell("Image"), TextCell("Lat"), TextCell("Long"), TextCell("Alt")>>,
     GoodRow("a.jpg", Coord1)}

RECURSIVE Tables(_)
\* the tables of exactly n data rows
Tables(n) ==
    IF n = 0 THEN {<<>>}
    ELSE {Append(tb, r) : tb \in Tables(n - 1), r \in RowSamples}

\* metadata of an image before main runs
CameraExif == [ifd \in IFDs |-> IF ifd = "0th" THEN CameraTags ELSE NoIFD]

StaleReport == TextFile(<<"old.jpg">>)

Init ==
    /\ UnitIdle
    /\ \/ rows = <<>>
       \/ \E n \in 0 .. MaxRows : \E h \in HeaderSamples, tb \in Tables(n) :
             rows = <<h>> \o tb
    /\ present \in SUBSET Names
    /\ meta = [f \in present |-> CameraExif]
    /\ report0 \in {Absent, StaleReport}
    /\ report = report0
    /\ failedFiles = <<>>
    /\ i = 1
    /\ pc = "open"
    /\ err = None
    /\ tagged = {}
    /\ stdout = <<>>

\* failedFiles = [], the file is opened and next(readCSV, None) skips one
\* row if there is one
SkipHeader ==
    /\ pc = "open"
    /\ failedFiles' = <<>>
    /\ i' = IF i <= Len(rows) THEN i + 1 ELSE i
    /\ pc' = "loop"
    /\ UNCHANGED <<rows, present, meta, report, report0, err, tagged, stdout>>
    /\ UNCHANGED unitVars

\* row[col]: the row has the column
HasColumn(row, col) == Len(row) > col

Cell(row, col) == row[col + 1]

\* the exception float(row[col]) raises, None if it returns
FloatError(row, col) ==
    IF ~HasColumn(row, col) THEN "IndexError"
    ELSE IF Cell(row, col).t = "text" THEN "ValueError"
    ELSE None

\* the exception raised while the arguments of set_gps_location are evaluated
ArgsError(row) ==
    IF FloatError(row, Lat_Y_Column) # None THEN FloatError(row, Lat_Y_Column)
    ELSE IF FloatError(row, Long_X_Column) # None THEN FloatError(row, Long_X_Column)
    ELSE FloatError(row, Alt_Z_Column)

\* path.exists(path.join(sourceImageFolder, name))
path_exists(name) == name \in present

\* the exception the loop body raises on the row before any metadata is
\* written, None if it raises none
RowException_convert_first(row) ==
    IF ~HasColumn(row, img_Name_Column) THEN "IndexError"
    ELSE ArgsError(row)

RowException(row) ==
    IF ~HasColumn(row, img_Name_Column) THEN "IndexError"
    ELSE IF ~path_exists(Cell(row, img_Name_Column).s) THEN None
    ELSE ArgsError(row)

\* what the loop body has printed by the time it raises or returns
Printed(row) ==
    IF ~HasColumn(row, img_Name_Column) THEN <<>>
    ELSE IF ~path_exists(Cell(row, img_Name_Column).s)
    THEN <<<<"Skipped", Cell(row, img_Name_Column).s>>>>
    ELSE <<<<"imgFile", Cell(row, img_Name_Column).s>>>>

AtRow == pc = "loop" /\ i <= Len(rows)

\* loop body, the file does not exist: record the name and go on
SkipMissing_dedup_slip ==
    /\ AtRow
    /\ RowException(rows[i]) = None
    /\ ~path_exists(Cell(rows[i], img_Name_Column).s)
    /\ stdout' = stdout \o Printed(rows[i])
    /\ failedFiles' =
          IF \E k \in 1 .. Len(failedFiles) : failedFiles[k] = Cell(rows[i], img_Name_Column).s
          THEN failedFiles
          ELSE Append(failedFiles, Cell(rows[i], img_Name_Column).s)
    /\ i' = i + 1
    /\ UNCHANGED <<rows, present, meta, report, report0, pc, err, tagged>>
    /\ UNCHANGED unitVars

SkipMissing ==
    /\ AtRow
    /\ RowException(rows[i]) = None
    /\ ~path_exists(Cell(rows[i], img_Name_Column).s)
    /\ stdout' = stdout \o Printed(rows[i])
    /\ failedFiles' = Append(failedFiles, Cell(rows[i], img_Name_Column).s)
    /\ i' = i + 1
    /\ UNCHANGED <<rows, present, meta, report, report0, pc, err, tagged>>
    /\ UNCHANGED unitVars

\* loop body, the file exists and set_gps_location returns
TagRow ==
    /\ AtRow
    /\ RowException(rows[i]) = None
    /\ path_exists(Cell(rows[i], img_Name_Column).s)
    /\ stdout' = stdout \o Printed(rows[i])
    /\ meta' = [meta EXCEPT ![Cell(rows[i], img_Name_Column).s] =
                   set_gps_location(@, Cell(rows[i], Lat_Y_Column),
                                    Cell(rows[i], Long_X_Column),
                                    Cell(rows[i], Alt_Z_Column))]
    /\ tagged' = tagged \cup {i}
    /\ i' = i + 1
    /\ UNCHANGED <<rows, present, report, report0, failedFiles, pc, err>>
    /\ UNCHANGED unitVars

\* loop body, the file exists and piexif raises: the exception leaves main,
\* the file is as it was
MetadataFailure_flush_slip ==
    /\ AtRow
    /\ RowException(rows[i]) = None
    /\ path_exists(Cell(rows[i], img_Name_Column).s)
    /\ stdout' = stdout \o Printed(rows[i])
    /\ report' = IF Len(failedFiles) # 0 THEN write_list_to_file(failedFiles, report)
                 ELSE report
    /\ pc' = "raised"
    /\ err' = "piexif"
    /\ UNCHANGED <<rows, present, meta, report0, failedFiles, i, tagged>>
    /\ UNCHANGED unitVars

MetadataFailure ==
    /\ AtRow
    /\ RowException(rows[i]) = None
    /\ path_exists(Cell(rows[i], img_Name_Column).s)
    /\ stdout' = stdout \o Printed(rows[i])
    /\ pc' = "raised"
    /\ err' = "piexif"
    /\ UNCHANGED <<rows, present, meta, report, report0, failedFiles, i, tagged>>
    /\ UNCHANGED unitVars

\* loop body, the row cannot be read: IndexError or ValueError leaves main
RowFailure ==
    /\ AtRow
    /\ RowException(rows[i]) # None
    /\ stdout' = stdout \o Printed(rows[i])
    /\ pc' = "raised"
    /\ err' = RowException(rows[i])
    /\ UNCHANGED <<rows, present, meta, report, report0, failedFiles, i, tagged>>
    /\ UNCHANGED unitVars

\* after the loop: write the report if any file failed.  "del failedFiles"
\* drops the local name as main returns; the list is kept here as it was.
Finish ==
    /\ pc = "loop" /\ i > Len(rows)
    /\ IF Len(failedFiles) # 0
       THEN /\ report' = write_list_to_file(failedFiles, report)
            /\ stdout' = stdout \o <<<<"could not locate", Len(failedFiles)>>,
                                      <<"appending", "errorLogCSV">>,
                                      <<"see", "errorLogCSV">>>>
       ELSE UNCHANGED <<report, stdout>>
    /\ pc' = "done"
    /\ UNCHANGED <<rows, present, meta, report0, failedFiles, i, err, tagged>>
    /\ UNCHANGED unitVars

Next == SkipHeader \/ SkipMissing \/ TagRow \/ MetadataFailure \/ RowFailure \/ Finish

Spec == Init /\ [][Next]_vars

\* ------------------------------------------------------- claims on main
DataRows == 2 .. Len(rows)

RowHasName(r) == HasColumn(rows[r], img_Name_Column)

NameOf(r) == Cell(rows[r], img_Name_Column).s

\* the file named by row r exists in the image folder
FileExists(r) == RowHasName(r) /\ NameOf(r) \in present

\* the file named by row r is absent from the image folder
FileAbsent(r) == RowHasName(r) /\ NameOf(r) \notin present

RECURSIVE MissingNames(_)
\* names of the data rows up to row n whose file is absent, in table order
MissingNames(n) ==
    IF n < 2 THEN <<>>
    ELSE IF FileAbsent(n) THEN Append(MissingNames(n - 1), NameOf(n))
    ELSE MissingNames(n - 1)

\* the last data row that names file f, 0 if none does
LastRowFor(f) ==
    LET rs == {r \in DataRows : FileExists(r) /\ NameOf(r) = f}
    IN  IF rs = {} THEN 0 ELSE CHOOSE r \in rs : \A q \in rs : q <= r

\* the GPS block row r asks for
BlockOf(r) ==
    gps_ifd(Cell(rows[r], Lat_Y_Column), Cell(rows[r], Long_X_Column),
            Cell(rows[r], Alt_Z_Column))

\* C1: when main returns, every data row whose file exists is tagged, no
\* other row is (the header row included), each file carries the block of
\* the last row naming it, and failedFiles holds the names of the rows
\* whose file is absent, in table order, one entry per row.
C1_BestEffortPass ==
    pc = "done" =>
        /\ tagged = {r \in DataRows : FileExists(r)}
        /\ failedFiles = MissingNames(Len(rows))
        /\ \A f \in present :
              IF LastRowFor(f) = 0 THEN meta[f] = CameraExif
              ELSE meta[f]["GPS"] = BlockOf(LastRowFor(f))

\* header, then three rows of which the second names an absent file
C1_Witness ==
    /\ pc = "done" /\ Len(rows) = 4
    /\ FileExists(1) /\ FileExists(2) /\ FileAbsent(3) /\ FileExists(4)
    /\ tagged = {2, 4}
    /\ failedFiles = <<NameOf(3)>>
    /\ report = TextFile(<<NameOf(3)>>)

\* C2: when main returns with a non-empty failedFiles, the report holds
\* exactly its entries, one per line, in order; with an empty failedFiles the
\* report is as it was before the run.  Until main returns the report is as
\* it was before the run.
C2_ReportOverwrittenOrUntouched ==
    /\ pc = "done" =>
          IF Len(failedFiles) # 0 THEN report = TextFile(failedFiles)
          ELSE report = report0
    /\ pc # "done" => report = report0

\* a stale report replaced by the two failures of this run
C2_Witness ==
    /\ pc = "done" /\ report0 = StaleReport
    /\ Len(failedFiles) = 2 /\ failedFiles[1] = failedFiles[2]
    /\ report = TextFile(failedFiles)

\* C7: when piexif raises at row i, the rows before i whose file exists are
\* tagged and no other row is, the file of row i is as the earlier rows left
\* it, and the report is as it was before the run although failedFiles may
\* hold names.
C7_AbortOnMetadataFailure ==
    (pc = "raised" /\ err = "piexif") =>
        /\ tagged = {r \in DataRows : r < i /\ FileExists(r)}
        /\ failedFiles = MissingNames(i - 1)
        /\ report = report0
        /\ \A f \in present :
              LET rs == {r \in tagged : NameOf(r) = f}
              IN  IF rs = {} THEN meta[f] = CameraExif
                  ELSE \E r \in rs : (\A q \in rs : q <= r) /\ meta[f]["GPS"] = BlockOf(r)

\* a failure at the third data row, after one tagged and one missing file,
\* with a row left whose file exists
C7_Witness ==
    /\ pc = "raised" /\ err = "piexif" /\ i = 4 /\ Len(rows) = 5
    /\ tagged = {2} /\ Len(failedFiles) = 1 /\ FileExists(5)
    /\ report0 = StaleReport /\ report = StaleReport

\* a row with too few columns or a non-numeric latitude, longitude or altitude
Malformed(r) ==
    \/ ~RowHasName(r)
    \/ ArgsError(rows[r]) # None

\* C8 as stated: a malformed data row aborts the batch whether or not its
\* file exists: the loop never passes it, neither it nor a later row is
\* tagged, and nothing of it or of a later row enters failedFiles.
C8_MalformedRowAlwaysAborts ==
    \A k \in DataRows :
        Malformed(k) =>
            /\ i <= k
            /\ tagged \subseteq 2 .. (k - 1)
            /\ Len(failedFiles) <= Len(MissingNames(k - 1))

\* C8 amended: a malformed data row aborts the batch when it lacks the name
\* column or its file exists; a malformed row whose name column is present
\* and whose file is absent raises nothing, is recorded in failedFiles and
\* the loop goes on.
C8_MalformedRowAbortsUnlessFileAbsent ==
    \A k \in DataRows :
        Malformed(k) =>
            IF FileAbsent(k)
            THEN /\ k \notin tagged
                 /\ ~(pc = "raised" /\ i = k)
                 /\ i > k => /\ Len(failedFiles) >= Len(MissingNames(k))
                             /\ failedFiles[Len(MissingNames(k))] = NameOf(k)
            ELSE /\ i <= k
                 /\ pc # "done"
                 /\ tagged \subseteq 2 .. (k - 1)
                 /\ Len(failedFiles) <= Len(MissingNames(k - 1))
                 /\ (pc = "raised" /\ i = k) => err \in {"IndexError", "ValueError"}

\* a short row of an absent file is recorded, the next row is tagged, and
\* the batch aborts on a later malformed row whose file exists
C8_Witness ==
    /\ Len(rows) = 5
    /\ Malformed(2) /\ FileAbsent(2) /\ Malformed(4) /\ FileExists(4) /\ FileExists(5)
    /\ pc = "raised" /\ err = "ValueError" /\ i = 4
    /\ tagged = {3} /\ failedFiles = <<NameOf(2)>>

====
